---- MODULE Spec2Model ----
(***************************************************************************)
(* Model of turing-rust's measurement pipeline: the scheduler loop         *)
(* (src/src/scheduler.rs) polling meters and publishing snapshots on a     *)
(* bounded channel, and the renderer thread (src/src/render.rs) draining   *)
(* it, as wired together by run() in src/src/cmd/turing-screen/main.rs.    *)
(*                                                                         *)
(* Time is counted in quanta of 100 ms, the scheduler's sleep; an f32      *)
(* measurement is a small natural number.                                  *)
(***************************************************************************)
EXTENDS Integers, Sequences, FiniteSets, TLC

\* ------------------------------------------------------------------ bounds

\* Measured values range over 0..MaxValue.
MaxValue == 1
\* The scheduler stops sleeping once the clock has reached MaxTime quanta.
MaxTime == 31
\* One loop iteration (sleep of 100 ms plus the work) takes 1..MaxSleep quanta.
MaxSleep == 2
\* At most MaxWarn receive errors are logged by the renderer.
MaxWarn == 2

\* --------------------------------------------------------- program constants

\* thread::sleep(Duration::from_millis(100)): quanta per second.
QuantaPerSec == 10
\* Duration::from_secs(86400), "a long time ago", in quanta.
LongAgo == 864000
\* mpsc::sync_channel(1)
ChannelCap == 1
\* The value stored when measure() fails: the 0.0 of the Err arm.
ErrValue == 0
\* --refresh (seconds) given on the command line.
RefreshSecs == 1

VARIABLES
    configs,        \* Vec<MeterConfig> of the theme: [id, interval, font]
    meter_map,      \* Measurements owned by the scheduler: id -> value
    tasks,          \* Scheduler.tasks: sequence of [id, period, last]
    refresh_period, \* Scheduler.refresh_period, in quanta
    last_refresh,   \* local last_refresh of Scheduler::start
    now,            \* Instant::now(), in quanta
    sched_pc,       \* "new" | "idle" | "poll" | "send" | "sleep" | "dropped"
    measured,       \* history: how many times each task's measure() ran
    chan,           \* the sync_channel's buffer
    tx_alive,       \* the SyncSender has not been dropped
    rx_alive,       \* the Receiver has not been dropped
    rend_pc,        \* "new" | "recv" | "render" | "panicked" | "returned"
    rend_meas,      \* the snapshot the renderer is rendering, or NoMeas
    widgets,        \* Renderer.widgets: id -> layout
    font_map,       \* Renderer.font: the set of cached font paths
    font_loads,     \* history: number of font files read by Renderer::new
    rend_warnings,  \* number of "renderer receive error" lines logged
    orientation,    \* ScreenRevA.orientation
    fb565_raw,      \* ScreenRevA.fb565_raw: byte offset -> byte, the zeros left out
    port_log,       \* the transport calls made by the last driver call, in order
    drv_call,       \* the last driver call and its arguments
    drv_res,        \* what the last driver call returned: "ok", an error, or "panic"
    drv_calls,      \* number of driver calls made so far
    img,            \* an Image (or Framebuffer): [width, height, buffer]
    img_call,       \* the last call made on the image and its arguments
    img_res         \* how that call ended: "ok" or "panic"; the result of a clip

pipe_vars == <<configs, meter_map, tasks, refresh_period, last_refresh, now,
               sched_pc, measured, chan, tx_alive, rx_alive, rend_pc, rend_meas,
               widgets, font_map, font_loads, rend_warnings>>

drv_vars == <<orientation, fb565_raw, port_log, drv_call, drv_res, drv_calls>>

img_vars == <<img, img_call, img_res>>

vars == <<configs, meter_map, tasks, refresh_period, last_refresh, now,
          sched_pc, measured, chan, tx_alive, rx_alive, rend_pc, rend_meas,
          widgets, font_map, font_loads, rend_warnings,
          orientation, fb565_raw, port_log, drv_call, drv_res, drv_calls,
          img, img_call, img_res>>

sched_vars == <<meter_map, tasks, refresh_period, last_refresh, now,
                sched_pc, measured>>

rend_vars == <<rend_pc, rend_meas, widgets, font_map, font_loads, rend_warnings>>

\* ------------------------------------------------------------------ helpers

\* No snapshot: the map without entries, which no theme with a meter produces.
NoMeas == << >>
NoFont == "none"

Range(s) == {s[i] : i \in DOMAIN s}

Secs(n) == n * QuantaPerSec

\* The ids for which create_meter knows a Meter implementation.
MeterKinds == {1, 2, 3}

\* themes::get_meter_list: one MeterConfig per meter present in the theme.
\* A meter without a font has a graph widget only; meter 4 ("GPU:...") has no
\* implementation.
Themes ==
    { << [id |-> 1, interval |-> 2,  font |-> "a.ttf"],
         [id |-> 2, interval |-> 3,  font |-> "a.ttf"],
         [id |-> 3, interval |-> 10, font |-> NoFont],
         [id |-> 4, interval |-> 2,  font |-> "b.ttf"] >>,
      << [id |-> 1, interval |-> 1,  font |-> "b.ttf"],
         [id |-> 2, interval |-> 2,  font |-> NoFont] >> }

ConfigIds(cfgs) == {cfgs[i].id : i \in DOMAIN cfgs}

\* run(): measurements.insert(cfg.id, 0.0) for every config.
InitialMeasurements(cfgs) == [id \in ConfigIds(cfgs) |-> 0]

\* Faulty variant of NewTask: the task's timer starts at its creation.
NewTaskFromNow(id, period, t) == [id |-> id, period |-> period, last |-> t]

\* Task::new: last is a day before the task is created.
NewTask(id, period, t) == [id |-> id, period |-> period, last |-> t - LongAgo]

\* task.last.elapsed()
Elapsed(last) == now - last

Due(task) == Elapsed(task.last) >= task.period

\* The outcomes of Meter::measure(): Ok(val) or Err.
Outcomes == {[ok |-> TRUE, val |-> v] : v \in 0..MaxValue} \cup {[ok |-> FALSE, val |-> 0]}

\* match m.measure() { Ok(val) => val, Err(err) => { warn; 0.0 } }
MeasuredValue(res) == IF res.ok THEN res.val ELSE ErrValue

\* if let Some(slot) = meter_map.get_mut(&id) { *slot = val }
WriteSlot(map, id, val) == IF id \in DOMAIN map THEN [map EXCEPT ![id] = val] ELSE map

\* Faulty variant of Clone: only the meters that have a task are copied.
CloneRegistered(map) ==
    [id \in {k \in DOMAIN map : \E i \in DOMAIN tasks : tasks[i].id = k} |-> map[id]]

\* meter_map.clone(): a new map with the same entries.
Clone(map) == [id \in DOMAIN map |-> map[id]]

\* SyncSender::try_send: the result and the buffer afterwards.
TrySendResult(ch, alive) ==
    IF ~alive THEN "disconnected"
    ELSE IF Len(ch) >= ChannelCap THEN "full"
    ELSE "ok"

\* Faulty variant of TrySendBuffer: an unbounded channel, every send is queued.
TrySendUnbounded(ch, alive, v) == IF alive THEN Append(ch, v) ELSE ch

\* Faulty variant of TrySendBuffer: a full slot is overwritten by the new snapshot.
TrySendOverwrite(ch, alive, v) ==
    IF TrySendResult(ch, alive) = "ok" THEN Append(ch, v)
    ELSE IF TrySendResult(ch, alive) = "full" THEN <<v>>
    ELSE ch

TrySendBuffer(ch, alive, v) ==
    IF TrySendResult(ch, alive) = "ok" THEN Append(ch, v) ELSE ch

\* ------------------------------------------------------- display driver: wire

\* The driver makes at most MaxCalls calls.
MaxCalls == 2
\* At most MaxFaults transport writes of one driver call do not go through whole.
MaxFaults == 1

\* screen_rev_a.rs: the panel's size in portrait, in pixels.
WIDTH == 320
HEIGHT == 480

\* enum Command
Hello == 69
Clear == 102
ScreenOff == 108
ScreenOn == 109
SetBrightness == 110
SetOrientation == 121
DisplayBitmap == 197

Opcodes == {Hello, Clear, ScreenOff, ScreenOn, SetBrightness, SetOrientation, DisplayBitmap}

\* const USBMONITOR35
USBMONITOR35 == <<1, 1, 1, 1, 1, 1>>

Orientations == {"Portrait", "Landscape", "ReversePortrait", "ReverseLandscape"}

RECURSIVE Pow2(_)
Pow2(n) == IF n = 0 THEN 1 ELSE 2 * Pow2(n - 1)

RECURSIVE BitAnd(_, _)
\* a & b
BitAnd(a, b) ==
    IF a = 0 \/ b = 0 THEN 0
    ELSE (a % 2) * (b % 2) + 2 * BitAnd(a \div 2, b \div 2)

RECURSIVE BitOr(_, _)
\* a | b
BitOr(a, b) ==
    IF a = 0 THEN b
    ELSE IF b = 0 THEN a
    ELSE (IF a % 2 = 1 \/ b % 2 = 1 THEN 1 ELSE 0) + 2 * BitOr(a \div 2, b \div 2)

\* a << n and a >> n on unsigned words wide enough not to lose a bit
Shl(a, n) == a * Pow2(n)
Shr(a, n) == a \div Pow2(n)

\* `x as u8`: the low eight bits
U8(x) == x % 256

\* Faulty variant of NotU8: a level above 255 saturates instead of wrapping.
NotU8Saturating(x) == IF x > 255 THEN 0 ELSE 255 - x

\* `!x as u8` for an unsigned x: the low eight bits of the complement
NotU8(x) == 255 - (x % 256)

\* fn orientation(o: Orientation) -> u8
OrientationCode(o) ==
    CASE o = "Portrait" -> 0
      [] o = "Landscape" -> 2
      [] o = "ReversePortrait" -> 1
      [] o = "ReverseLandscape" -> 3

\* cmd!($a): a command without arguments
Cmd1(op) == <<0, 0, 0, 0, 0, op>>

\* cmd!($a, $b): one argument, in the first byte
Cmd2(op, b) == <<U8(b), 0, 0, 0, 0, op>>

\* Faulty variant of Cmd5: the second value is not split at its low four bits.
Cmd5Misaligned(op, b, c, d, e) ==
    << U8(Shr(BitAnd(b, 1023), 2)),
       U8(BitOr(Shl(BitAnd(b, 3), 6), Shr(BitAnd(c, 1023), 4))),
       U8(BitOr(Shl(BitAnd(c, 3), 4), Shr(BitAnd(d, 1023), 6))),
       U8(BitOr(Shl(BitAnd(d, 63), 2), Shr(BitAnd(e, 1023), 8))),
       U8(BitAnd(e, 255)),
       op >>

\* cmd!($a, $b, $c, $d, $e): four 10-bit values packed in five bytes
Cmd5(op, b, c, d, e) ==
    << U8(Shr(BitAnd(b, 1023), 2)),
       U8(BitOr(Shl(BitAnd(b, 3), 6), Shr(BitAnd(c, 1023), 4))),
       U8(BitOr(Shl(BitAnd(c, 15), 4), Shr(BitAnd(d, 1023), 6))),
       U8(BitOr(Shl(BitAnd(d, 63), 2), Shr(BitAnd(e, 1023), 8))),
       U8(BitAnd(e, 255)),
       op >>

\* Faulty variant of Cmd4: the arguments are dropped to fit six bytes.
Cmd4Short(op, b, c, d) == <<U8(100 + b), 0, 0, 0, 0, op>>

\* cmd!($a, $b, $c, $d) for SetOrientation: the six bytes of a command
\* followed by the orientation code, width and height, padded to sixteen
Cmd4(op, b, c, d) ==
    << 0, 0, 0, 0, 0, op,
       U8(100 + b), U8(Shr(c, 8)), U8(BitAnd(c, 255)),
       U8(Shr(d, 8)), U8(BitAnd(d, 255)),
       0, 0, 0, 0, 0 >>

\* Faulty variant of SizeOf: the portrait size in every orientation.
SizeOfPortrait(o) == [w |-> WIDTH, h |-> HEIGHT]

\* fn screen_size(&self) for a given orientation
SizeOf(o) ==
    IF o \in {"Portrait", "ReversePortrait"}
    THEN [w |-> WIDTH, h |-> HEIGHT]
    ELSE [w |-> HEIGHT, h |-> WIDTH]

\* self.screen_size()
screen_size == SizeOf(orientation)

\* ------------------------------------------------- display driver: transport

\* port.write(data): all bytes taken, fewer bytes taken, or an I/O error
WriteOutcomes == {"ok", "short", "err"}

\* port.read_exact(buf) of six bytes: the reply, or an I/O error (timeout)
Replies == {USBMONITOR35, <<1, 1, 1, 1, 1, 2>>, <<0, 1, 1, 1, 1, 1>>}

\* The outcomes of the k writes a driver call may make.
WriteFaults(k) ==
    {outs \in [1..k -> WriteOutcomes] :
        Cardinality({i \in 1..k : outs[i] # "ok"}) <= MaxFaults}

WriteCall(data, out) == [call |-> "write", data |-> data, out |-> out]
ReadCall(data, out) == [call |-> "read", data |-> data, out |-> out]

\* The index of the first write that fails, 0 if none does.
FirstErr(outs) ==
    IF \E i \in DOMAIN outs : outs[i] = "err"
    THEN CHOOSE i \in DOMAIN outs : outs[i] = "err" /\ \A j \in 1..(i - 1) : outs[j] # "err"
    ELSE 0

\* Faulty variant of WriteAll: a failed write is followed by the remaining ones.
WriteAllKeepGoing(datas, outs) ==
    [i \in DOMAIN datas |-> WriteCall(datas[i], outs[i])]

\* self.write(a)?; self.write(b)?; ... : the write calls made, the first
\* failing one being the last.
WriteAll(datas, outs) ==
    LET f == FirstErr(outs)
        n == IF f = 0 THEN Len(datas) ELSE f
    IN [i \in 1..n |-> WriteCall(datas[i], outs[i])]

\* The calls of a log that failed.
Failed(log) == {i \in DOMAIN log : log[i].out = "err"}

\* ScreenRevA::new: portrait, an all-zero RGB565 buffer.
DriverNew ==
    /\ orientation = "Portrait"
    /\ fb565_raw = << >>
    /\ port_log = << >>
    /\ drv_call = [name |-> "new"]
    /\ drv_res = "none"
    /\ drv_calls = 0

\* What every driver call leaves behind.
Return(call, log, res) ==
    /\ port_log' = log
    /\ drv_call' = call
    /\ drv_res' = res
    /\ drv_calls' = drv_calls + 1

\* ------------------------------------------------------------------ images

\* colors::BLACK
BLACK == [r |-> 0, g |-> 0, b |-> 0, a |-> 255]

\* Image::new(width, height): every pixel black and opaque.
NewImage(width, height) ==
    [width |-> width, height |-> height, buffer |-> [k \in 1..(width * height) |-> BLACK]]

\* The image the program starts with: Image::new(3, 3).
ImageNew ==
    /\ img = NewImage(3, 3)
    /\ img_call = [name |-> "new"]
    /\ img_res = "none"

\* ------------------------------------------------------------------ initial

Init ==
    /\ configs \in Themes
    /\ meter_map = InitialMeasurements(configs)
    /\ tasks = << >>
    /\ refresh_period = Secs(RefreshSecs)
    /\ last_refresh = 0
    /\ now = 0
    /\ sched_pc = "new"
    /\ measured = << >>
    /\ chan = << >>
    /\ tx_alive = TRUE
    /\ rx_alive = TRUE
    /\ rend_pc = "new"
    /\ rend_meas = NoMeas
    /\ widgets = << >>
    /\ font_map = {}
    /\ font_loads = 0
    /\ rend_warnings = 0
    /\ DriverNew
    /\ ImageNew

\* ------------------------------------------------- main thread: registration

\* create_meter(id): Err("invalid meter") for an unknown id; a known meter's
\* constructor may fail too (`ok` is its outcome).
CreateMeter(id, ok) == id \in MeterKinds /\ ok

RECURSIVE RegisterFrom(_, _, _, _)
\* register_meters: in config order, push a Task for every meter created.
RegisterFrom(cfgs, i, created, acc) ==
    IF i > Len(cfgs) THEN acc
    ELSE IF CreateMeter(cfgs[i].id, cfgs[i].id \in created)
         THEN RegisterFrom(cfgs, i + 1, created,
                           Append(acc, NewTask(cfgs[i].id, Secs(cfgs[i].interval), now)))
         ELSE RegisterFrom(cfgs, i + 1, created, acc)

\* Scheduler::new followed by register_meters(&mut scheduler, configs).
RegisterMeters ==
    /\ sched_pc = "new"
    /\ \E created \in SUBSET ConfigIds(configs) :
          /\ tasks' = RegisterFrom(configs, 1, created, << >>)
          /\ measured' = [i \in DOMAIN tasks' |-> 0]
    /\ sched_pc' = "idle"
    /\ UNCHANGED <<configs, meter_map, refresh_period, last_refresh, now,
                   chan, tx_alive, rx_alive>>
    /\ UNCHANGED rend_vars
    /\ UNCHANGED drv_vars
    /\ UNCHANGED img_vars

\* A Scheduler that is never started is dropped, and its SyncSender with it.
SchedDrop ==
    /\ sched_pc = "idle"
    /\ sched_pc' = "dropped"
    /\ tx_alive' = FALSE
    /\ UNCHANGED <<configs, meter_map, tasks, refresh_period, last_refresh, now,
                   measured, chan, rx_alive>>
    /\ UNCHANGED rend_vars
    /\ UNCHANGED drv_vars
    /\ UNCHANGED img_vars

\* ------------------------------------------------------------ scheduler loop

\* Scheduler::start up to the loop: last_refresh is a day ago.
SchedStart ==
    /\ sched_pc = "idle"
    /\ last_refresh' = now - LongAgo
    /\ sched_pc' = "poll"
    /\ UNCHANGED <<configs, meter_map, tasks, refresh_period, now, measured,
                   chan, tx_alive, rx_alive>>
    /\ UNCHANGED rend_vars
    /\ UNCHANGED drv_vars
    /\ UNCHANGED img_vars

DueTasks == {i \in DOMAIN tasks : Due(tasks[i])}

\* Faulty variant of PollFrom: a tick runs the first due task only.
PollFromOnePerTick(i, ts, map, cnt, res) ==
    IF \E k \in i..Len(ts) : Due(ts[k])
    THEN LET k == CHOOSE k \in i..Len(ts) :
                     Due(ts[k]) /\ \A j \in i..(k - 1) : ~Due(ts[j])
         IN [tasks |-> [ts EXCEPT ![k].last = now],
             map |-> WriteSlot(map, ts[k].id, MeasuredValue(res[k])),
             cnt |-> [cnt EXCEPT ![k] = @ + 1]]
    ELSE [tasks |-> ts, map |-> map, cnt |-> cnt]

RECURSIVE PollFrom(_, _, _, _, _)
\* The for loop over self.tasks, in registration order; res[i] is what the
\* i-th task's measure() returns when it is due.
PollFrom(i, ts, map, cnt, res) ==
    IF i > Len(ts) THEN [tasks |-> ts, map |-> map, cnt |-> cnt]
    ELSE IF Due(ts[i])
         THEN PollFrom(i + 1,
                       [ts EXCEPT ![i].last = now],
                       WriteSlot(map, ts[i].id, MeasuredValue(res[i])),
                       [cnt EXCEPT ![i] = @ + 1],
                       res)
         ELSE PollFrom(i + 1, ts, map, cnt, res)

PollWith(res) ==
    /\ sched_pc = "poll"
    /\ LET r == PollFrom(1, tasks, meter_map, measured, res) IN
          /\ tasks' = r.tasks
          /\ meter_map' = r.map
          /\ measured' = r.cnt
    /\ sched_pc' = "send"
    /\ UNCHANGED <<configs, refresh_period, last_refresh, now, chan, tx_alive, rx_alive>>
    /\ UNCHANGED rend_vars
    /\ UNCHANGED drv_vars
    /\ UNCHANGED img_vars

\* Faulty variant of SchedPoll: the channel holds the scheduler's map itself, so the
\* measurements written reach the pending snapshot.
SchedPollShared ==
    \E res \in [DueTasks -> Outcomes] :
       /\ sched_pc = "poll"
       /\ LET r == PollFrom(1, tasks, meter_map, measured, res) IN
             /\ tasks' = r.tasks
             /\ meter_map' = r.map
             /\ measured' = r.cnt
             /\ chan' = [k \in DOMAIN chan |-> r.map]
       /\ sched_pc' = "send"
       /\ UNCHANGED <<configs, refresh_period, last_refresh, now, tx_alive, rx_alive>>
       /\ UNCHANGED rend_vars
       /\ UNCHANGED drv_vars
       /\ UNCHANGED img_vars

\* "Collect stats from meters"
SchedPoll == \E res \in [DueTasks -> Outcomes] : PollWith(res)

RefreshDue == Elapsed(last_refresh) >= refresh_period

\* Faulty variant of RefreshedAt: only a snapshot that was sent restarts the
\* period.
RefreshedAtWhenSent(result, last) == IF result = "ok" THEN now ELSE last

\* last_refresh = now, after the match on what try_send returned
RefreshedAt(result, last) == now

\* "Send state to renderer". fullPc and discPc are where the loop goes on after
\* Err(Full) and Err(Disconnected): the code logs both and falls through.
SchedSendThen(fullPc, discPc) ==
    /\ sched_pc = "send"
    /\ IF RefreshDue
       THEN /\ chan' = TrySendBuffer(chan, rx_alive, Clone(meter_map))
            /\ last_refresh' = RefreshedAt(TrySendResult(chan, rx_alive), last_refresh)
            /\ sched_pc' = CASE TrySendResult(chan, rx_alive) = "full" -> fullPc
                             [] TrySendResult(chan, rx_alive) = "disconnected" -> discPc
                             [] OTHER -> "sleep"
       ELSE /\ sched_pc' = "sleep"
            /\ UNCHANGED <<chan, last_refresh>>
    /\ UNCHANGED <<configs, meter_map, tasks, refresh_period, now, measured,
                   tx_alive, rx_alive>>
    /\ UNCHANGED rend_vars
    /\ UNCHANGED drv_vars
    /\ UNCHANGED img_vars

\* Faulty variant of SchedSend: a full slot ends the loop.
SchedSendStopOnFull == SchedSendThen("stopped", "sleep")

\* Faulty variant of SchedSend: a disconnected channel ends the loop.
SchedSendStopOnDisconnect == SchedSendThen("sleep", "stopped")

SchedSend == SchedSendThen("sleep", "sleep")

\* thread::sleep(Duration::from_millis(100)) and the time the iteration took.
SchedSleep ==
    /\ sched_pc = "sleep"
    /\ now < MaxTime
    /\ \E d \in 1..MaxSleep : now' = now + d
    /\ sched_pc' = "poll"
    /\ UNCHANGED <<configs, meter_map, tasks, refresh_period, last_refresh,
                   measured, chan, tx_alive, rx_alive>>
    /\ UNCHANGED rend_vars
    /\ UNCHANGED drv_vars
    /\ UNCHANGED img_vars

SchedLoop == SchedPoll \/ SchedSend \/ SchedSleep

\* ---------------------------------------------------------- renderer thread

FontPath(font) == <<"res/fonts", font>>

RECURSIVE NewFromNoCache(_, _, _, _, _, _)
\* Faulty variant of NewFrom: the font file is read for every text widget.
NewFromNoCache(cfgs, i, wid, cache, loads, bad) ==
    IF i > Len(cfgs) THEN [ok |-> TRUE, widgets |-> wid, cache |-> cache, loads |-> loads]
    ELSE LET cfg == cfgs[i]
             w == [id \in DOMAIN wid \cup {cfg.id} |->
                      IF id = cfg.id THEN cfg.font ELSE wid[id]]
         IN IF cfg.font = NoFont
            THEN NewFromNoCache(cfgs, i + 1, w, cache, loads, bad)
            ELSE IF FontPath(cfg.font) \in bad
                 THEN [ok |-> FALSE, widgets |-> w, cache |-> cache, loads |-> loads + 1]
                 ELSE NewFromNoCache(cfgs, i + 1, w, cache \cup {FontPath(cfg.font)},
                                     loads + 1, bad)

RECURSIVE NewFrom(_, _, _, _, _, _)
\* The loop of Renderer::new over the configs; `bad` are the font paths whose
\* read or parse fails (unwrap panics there).
NewFrom(cfgs, i, wid, cache, loads, bad) ==
    IF i > Len(cfgs) THEN [ok |-> TRUE, widgets |-> wid, cache |-> cache, loads |-> loads]
    ELSE LET cfg == cfgs[i]
             w == [id \in DOMAIN wid \cup {cfg.id} |->
                      IF id = cfg.id THEN cfg.font ELSE wid[id]]
         IN IF cfg.font = NoFont \/ FontPath(cfg.font) \in cache
            THEN NewFrom(cfgs, i + 1, w, cache, loads, bad)
            ELSE IF FontPath(cfg.font) \in bad
                 THEN [ok |-> FALSE, widgets |-> w, cache |-> cache, loads |-> loads + 1]
                 ELSE NewFrom(cfgs, i + 1, w, cache \cup {FontPath(cfg.font)},
                              loads + 1, bad)

ThemeFontPaths(cfgs) == {FontPath(cfgs[i].font) : i \in {j \in DOMAIN cfgs : cfgs[j].font # NoFont}}

\* Renderer::new in the spawned thread. A panic unwinds the thread and drops
\* the Receiver, which discards what the channel holds.
RendererNew ==
    /\ rend_pc = "new"
    /\ \E bad \in SUBSET ThemeFontPaths(configs) :
          LET r == NewFrom(configs, 1, << >>, {}, 0, bad) IN
             /\ font_loads' = r.loads
             /\ IF r.ok
                THEN /\ widgets' = r.widgets
                     /\ font_map' = r.cache
                     /\ rend_pc' = "recv"
                     /\ UNCHANGED <<chan, rx_alive>>
                ELSE /\ widgets' = << >>
                     /\ font_map' = {}
                     /\ rend_pc' = "panicked"
                     /\ rx_alive' = FALSE
                     /\ chan' = << >>
    /\ UNCHANGED <<rend_meas, rend_warnings, configs, tx_alive>>
    /\ UNCHANGED sched_vars
    /\ UNCHANGED drv_vars
    /\ UNCHANGED img_vars

\* self.ch.recv(): a pending snapshot, or RecvError once the sender is gone
\* and the buffer is empty; blocks otherwise.
RendRecv ==
    /\ rend_pc = "recv"
    /\ \/ /\ chan # << >>
          /\ rend_meas' = Head(chan)
          /\ chan' = Tail(chan)
          /\ rend_pc' = "render"
          /\ UNCHANGED rend_warnings
       \/ /\ chan = << >>
          /\ ~tx_alive
          /\ rend_warnings < MaxWarn
          /\ rend_warnings' = rend_warnings + 1
          /\ UNCHANGED <<rend_meas, chan, rend_pc>>
    /\ UNCHANGED <<widgets, font_map, font_loads, configs, tx_alive, rx_alive>>
    /\ UNCHANGED sched_vars
    /\ UNCHANGED drv_vars
    /\ UNCHANGED img_vars

\* self.render(measurements): self.widgets[&id] panics on an unknown id.
RendRender ==
    /\ rend_pc = "render"
    /\ IF DOMAIN rend_meas \subseteq DOMAIN widgets
       THEN /\ rend_pc' = "recv"
            /\ UNCHANGED <<chan, rx_alive>>
       ELSE /\ rend_pc' = "panicked"
            /\ rx_alive' = FALSE
            /\ chan' = << >>
    /\ rend_meas' = NoMeas
    /\ UNCHANGED <<widgets, font_map, font_loads, rend_warnings, configs, tx_alive>>
    /\ UNCHANGED sched_vars
    /\ UNCHANGED drv_vars
    /\ UNCHANGED img_vars

\* ------------------------------------------------ display driver: operations

\* What read(6) can give: six bytes, or an I/O error.
ReadOutcomes ==
    {[ok |-> TRUE, data |-> r] : r \in Replies} \cup {[ok |-> FALSE, data |-> << >>]}

\* Faulty variant of InitResult: any reply of six bytes is accepted.
InitResultAnyReply(wout, rd) ==
    IF wout = "err" THEN "io_error"
    ELSE IF ~rd.ok THEN "io_error"
    ELSE "ok"

\* init(): what it returns, given the outcomes of its write and its read.
InitResult(wout, rd) ==
    IF wout = "err" THEN "io_error"
    ELSE IF ~rd.ok THEN "io_error"
    ELSE IF rd.data # USBMONITOR35 THEN "incompatible"
    ELSE "ok"

\* init(): write Hello, read six bytes, compare them with the magic reply.
init ==
    /\ drv_calls < MaxCalls
    /\ \E wout \in WriteOutcomes, rd \in ReadOutcomes :
          LET hello == WriteAll(<<Cmd1(Hello)>>, <<wout>>)
              log == IF wout = "err" THEN hello
                     ELSE Append(hello, ReadCall(rd.data, IF rd.ok THEN "ok" ELSE "err"))
          IN Return([name |-> "init"], log, InitResult(wout, rd))
    /\ UNCHANGED <<orientation, fb565_raw>>
    /\ UNCHANGED pipe_vars
    /\ UNCHANGED img_vars

\* The frame set_orientation(o) writes.
OrientationFrame(o) == Cmd4(SetOrientation, OrientationCode(o), SizeOf(o).w, SizeOf(o).h)

\* set_orientation(o): the field is assigned before the command is written.
set_orientation ==
    /\ drv_calls < MaxCalls
    /\ \E o \in Orientations, wout \in WriteOutcomes :
          /\ orientation' = o
          /\ Return([name |-> "set_orientation", o |-> o],
                    WriteAll(<<OrientationFrame(o)>>, <<wout>>),
                    IF wout = "err" THEN "io_error" ELSE "ok")
    /\ UNCHANGED fb565_raw
    /\ UNCHANGED pipe_vars
    /\ UNCHANGED img_vars

\* Faulty variant of ClearFrames: the screen is cleared in the orientation it has.
ClearFramesOnly(o) == <<Cmd1(Clear)>>

\* The frames clear() writes: set_orientation(o), then Clear.
ClearFrames(o) == <<OrientationFrame(o), Cmd1(Clear)>>

\* clear(): set_orientation(Portrait)?, then the Clear command.
clear ==
    /\ drv_calls < MaxCalls
    /\ \E outs \in WriteFaults(2) :
          LET frames == ClearFrames("Portrait")
              log == WriteAll(frames, [i \in DOMAIN frames |-> outs[i]])
          IN /\ orientation' = "Portrait"
             /\ Return([name |-> "clear"], log,
                       IF Failed(log) # {} THEN "io_error" ELSE "ok")
    /\ UNCHANGED fb565_raw
    /\ UNCHANGED pipe_vars
    /\ UNCHANGED img_vars

\* screen_on() and screen_off()
screen_on_off ==
    /\ drv_calls < MaxCalls
    /\ \E op \in {ScreenOn, ScreenOff}, wout \in WriteOutcomes :
          Return([name |-> IF op = ScreenOn THEN "screen_on" ELSE "screen_off"],
                 WriteAll(<<Cmd1(op)>>, <<wout>>),
                 IF wout = "err" THEN "io_error" ELSE "ok")
    /\ UNCHANGED <<orientation, fb565_raw>>
    /\ UNCHANGED pipe_vars
    /\ UNCHANGED img_vars

\* The brightness levels tried.
Levels == {0, 85, 255, 300}

\* set_brightness(level): the complement of the level, in one byte.
set_brightness ==
    /\ drv_calls < MaxCalls
    /\ \E level \in Levels, wout \in WriteOutcomes :
          Return([name |-> "set_brightness", level |-> level],
                 WriteAll(<<Cmd2(SetBrightness, NotU8(level))>>, <<wout>>),
                 IF wout = "err" THEN "io_error" ELSE "ok")
    /\ UNCHANGED <<orientation, fb565_raw>>
    /\ UNCHANGED pipe_vars
    /\ UNCHANGED img_vars

\* ---------------------------------------------------- display driver: bitmaps

Px(r, g, b, a) == [r |-> r, g |-> g, b |-> b, a |-> a]

\* The images handed to the driver: Image { width, height, buffer }.
Images ==
    { [width |-> 3, height |-> 2,
       buffer |-> << Px(255, 0, 255, 255), Px(17, 34, 68, 136), Px(0, 255, 0, 0),
                     Px(85, 170, 255, 31), Px(4, 4, 4, 0),      Px(128, 28, 7, 255) >>] }

Rect(x, y, w, h) == [x |-> x, y |-> y, w |-> w, h |-> h]
Coord(x, y) == [x |-> x, y |-> y]

\* The crops asked for; some reach beyond a 3x2 image.
Crops ==
    { Rect(0, 0, 3, 2), Rect(1, 1, 2, 1), Rect(0, 0, 4, 1), Rect(0, 0, 0, 1),
      Rect(0, 1, 3, 2) }

\* The screen positions asked for.
Positions == { Coord(0, 0), Coord(1, 1), Coord(318, 1), Coord(320, 0), Coord(321, 0) }

Min(a, b) == IF a <= b THEN a ELSE b

\* The two kinds of build: with overflow checks (debug) and without (release).
Builds == {"debug", "release"}

\* The modulus of usize arithmetic. It stands for 2^64: a wrapped difference
\* is only compared with, and reduced by, values far below it.
UsizeWrap == Pow2(30)

\* a - b on usize in a build without overflow checks
WrappingSub(a, b) == IF a >= b THEN a - b ELSE a - b + UsizeWrap

\* Faulty variant of Clip: the height is not reduced.
ClipWidthOnly(rect, width, height) ==
    IF rect.x >= width \/ rect.y >= height
    THEN Rect(rect.x, rect.y, 0, 0)
    ELSE Rect(rect.x, rect.y, Min(rect.w, width - rect.x), rect.h)

\* Faulty variant of Clip: a rectangle starting on the far edge keeps a column.
ClipEdgeInclusive(rect, width, height) ==
    IF rect.x > width \/ rect.y >= height
    THEN Rect(rect.x, rect.y, 0, 0)
    ELSE Rect(rect.x, rect.y,
              IF rect.x = width THEN Min(rect.w, 1) ELSE Min(rect.w, width - rect.x),
              Min(rect.h, height - rect.y))

\* Rect::clip
Clip(rect, width, height) ==
    IF rect.x >= width \/ rect.y >= height
    THEN Rect(rect.x, rect.y, 0, 0)
    ELSE Rect(rect.x, rect.y, Min(rect.w, width - rect.x), Min(rect.h, height - rect.y))

\* vec![0u8; 2 * WIDTH * HEIGHT]
FbLen == 2 * WIDTH * HEIGHT

\* self.fb565_raw[ofs]
FbGet(fb, ofs) == IF ofs \in DOMAIN fb THEN fb[ofs] ELSE 0

\* self.fb565_raw[ofs] = v
FbSet(fb, ofs, v) ==
    IF v = 0 THEN [k \in DOMAIN fb \ {ofs} |-> fb[k]]
    ELSE [k \in DOMAIN fb \cup {ofs} |-> IF k = ofs THEN v ELSE fb[k]]

\* Faulty variant of PackLo: the blue bits are taken from the low end.
PackLoLowBlue(p) == U8(BitOr(Shl(BitAnd(p.g, 28), 3), BitAnd(p.b, 31)))

\* ((p.g & 0x1c) << 3) | (p.b >> 3)
PackLo(p) == U8(BitOr(Shl(BitAnd(p.g, 28), 3), Shr(p.b, 3)))

\* (p.r & 0xf8) | (p.g >> 5)
PackHi(p) == U8(BitOr(BitAnd(p.r, 248), Shr(p.g, 5)))

RECURSIVE DownmixFrom(_, _, _, _, _, _)
\* downmix from the k-th pixel of the rectangle on, row by row; indexing the
\* image or the buffer out of range panics and leaves what was written.
DownmixFrom(fb, image, rect, pos, width, k) ==
    IF k >= rect.w * rect.h THEN [ok |-> TRUE, fb |-> fb]
    ELSE LET j == k \div rect.w
             i == k % rect.w
             src == (rect.y + j) * image.width + rect.x + i
             dest == 2 * ((pos.y + j) * width + pos.x) + 2 * i
         IN IF src >= Len(image.buffer) \/ dest + 1 >= FbLen
            THEN [ok |-> FALSE, fb |-> fb]
            ELSE LET p == image.buffer[src + 1] IN
                 DownmixFrom(FbSet(FbSet(fb, dest, PackLo(p)), dest + 1, PackHi(p)),
                             image, rect, pos, width, k + 1)

downmix(fb, image, rect, pos, width) == DownmixFrom(fb, image, rect, pos, width, 0)

\* self.fb565_raw[start..start + n]
FbSlice(fb, start, n) == [k \in 1..n |-> FbGet(fb, start + k - 1)]

\* The DisplayBitmap command of display_image, with inclusive corners.
BitmapFrame(r, pos) ==
    Cmd5(DisplayBitmap, pos.x, pos.y, pos.x + r.w - 1, pos.y + r.h - 1)

\* The rows display_image writes after the command.
BitmapRows(fb, r, pos, width) ==
    [j \in 1..r.h |-> FbSlice(fb, (pos.y + j - 1) * 2 * width + 2 * pos.x, 2 * r.w)]

\* Faulty variant of DisplayFrames: the rows are written before the command.
DisplayFramesRowsFirst(fb, r, pos, width) ==
    BitmapRows(fb, r, pos, width) \o <<BitmapFrame(r, pos)>>

\* What display_image writes: the command, then the rows.
DisplayFrames(fb, r, pos, width) ==
    <<BitmapFrame(r, pos)>> \o BitmapRows(fb, r, pos, width)

\* Faulty variant of EmptyRect: only a rectangle without rows counts as empty.
EmptyRectNoRows(r) == r.h = 0

\* if r.w == 0 || r.h == 0
EmptyRect(r) == r.w = 0 \/ r.h = 0

\* display_image(image, crop, pos). For a position beyond the screen the
\* subtraction `width - pos.x` overflows: the call panics there in a build
\* with overflow checks (r is then the crop as given) and goes on with the
\* wrapped bound in a build without.
display_image ==
    /\ drv_calls < MaxCalls
    /\ \E image \in Images, crop \in Crops, pos \in Positions, build \in Builds :
          LET sz == SizeOf(orientation)
              overflow == pos.x > sz.w \/ pos.y > sz.h
              r == IF overflow /\ build = "debug" THEN crop
                   ELSE Clip(crop, WrappingSub(sz.w, pos.x), WrappingSub(sz.h, pos.y))
              call == [name |-> "display_image", image |-> image, crop |-> crop,
                       pos |-> pos, r |-> r]
          IN /\ overflow \/ build = "release"
             /\ IF overflow /\ build = "debug"
                THEN /\ Return(call, << >>, "panic")
                     /\ UNCHANGED fb565_raw
                ELSE IF EmptyRect(r)
                THEN /\ Return(call, << >>, "ok")
                     /\ UNCHANGED fb565_raw
                ELSE LET d == downmix(fb565_raw, image, r, pos, sz.w) IN
                     /\ fb565_raw' = d.fb
                     /\ IF ~d.ok
                        THEN Return(call, << >>, "panic")
                        ELSE \E outs \in WriteFaults(1 + r.h) :
                                LET frames == DisplayFrames(d.fb, r, pos, sz.w)
                                    log == WriteAll(frames, outs)
                                IN Return(call, log,
                                          IF Failed(log) # {} THEN "io_error" ELSE "ok")
    /\ UNCHANGED orientation
    /\ UNCHANGED pipe_vars
    /\ UNCHANGED img_vars

\* The pixel data handed to draw_bitmap: n bytes.
Datas == {[k \in 1..n |-> k] : n \in {0, 2, 3, 4, 8}}

\* draw_bitmap of screen.rs: how many of the h rows of 2*w bytes can be sliced
\* out of data before a slice runs past its end.
RowsInData(data, w, h) == Min(h, Len(data) \div (2 * w))

\* data[start..start + n]
Slice(data, start, n) == [k \in 1..n |-> data[start + k]]

\* draw_bitmap(data, x, y, w, h) of screen.rs: the command is written first,
\* then the size is checked, then the rows are sliced and written.
draw_bitmap ==
    /\ drv_calls < MaxCalls
    /\ \E data \in Datas, w \in 1..2, h \in 1..2, outs \in WriteFaults(3) :
          LET pos == Coord(1, 1)
              call == [name |-> "draw_bitmap", data |-> data, pos |-> pos, w |-> w, h |-> h]
              cmd == Cmd5(DisplayBitmap, pos.x, pos.y, pos.x + w - 1, pos.y + h - 1)
              n == RowsInData(data, w, h)
              rows == [j \in 1..n |-> Slice(data, (j - 1) * 2 * w, 2 * w)]
              sent == IF w * h > Len(data) THEN <<cmd>> ELSE <<cmd>> \o rows
              log == WriteAll(sent, [i \in DOMAIN sent |-> outs[i]])
          IN Return(call, log,
                    IF Failed(log) # {} THEN "io_error"
                    ELSE IF w * h > Len(data) THEN "dimensions_error"
                    ELSE IF n < h THEN "panic"
                    ELSE "ok")
    /\ UNCHANGED <<orientation, fb565_raw>>
    /\ UNCHANGED pipe_vars
    /\ UNCHANGED img_vars

\* -------------------------------------------------------- renderer's fonts

\* Renderer::new is given at most MaxConfigs widget configs.
MaxConfigs == 3

\* The font files a text widget may name.
Fonts == {"a.ttf", "b.ttf"}

\* Widget configs: a graph only (no font) or a text in one of the fonts.
WidgetConfigs ==
    {[id |-> id, interval |-> 1, font |-> f] : id \in 1..2, f \in Fonts \cup {NoFont}}

RECURSIVE ConfigLists(_)
\* The lists of at most n widget configs.
ConfigLists(n) ==
    IF n = 0 THEN {<< >>}
    ELSE ConfigLists(n - 1) \cup
         {Append(l, c) : l \in {m \in ConfigLists(n - 1) : Len(m) = n - 1}, c \in WidgetConfigs}

\* Renderer::new alone, for any list of widget configs.
InitFonts ==
    /\ configs \in ConfigLists(MaxConfigs)
    /\ meter_map = InitialMeasurements(configs)
    /\ tasks = << >>
    /\ refresh_period = Secs(RefreshSecs)
    /\ last_refresh = 0
    /\ now = 0
    /\ sched_pc = "new"
    /\ measured = << >>
    /\ chan = << >>
    /\ tx_alive = TRUE
    /\ rx_alive = TRUE
    /\ rend_pc = "new"
    /\ rend_meas = NoMeas
    /\ widgets = << >>
    /\ font_map = {}
    /\ font_loads = 0
    /\ rend_warnings = 0
    /\ DriverNew
    /\ ImageNew

NextFonts == RendererNew

SpecFonts == InitFonts /\ [][NextFonts]_vars

\* ------------------------------------------- display driver: construction

\* The driver alone; the theme plays no part in it, so one theme is enough.
InitDriver == Init /\ Len(configs) = 2

\* ------------------------------------- display driver: packing on its own

\* The coordinates packed: the ends, the byte and field boundaries, and
\* alternating bit patterns, of 0..1023.
CoordSamples == {0, 1, 2, 3, 4, 15, 16, 63, 64, 255, 256, 341, 682, 1023}

\* send_command(DisplayBitmap, x0, y0, x1, y1) of screen.rs, the packing that
\* cmd! does in screen_rev_a.rs, on a driver just constructed.
send_command ==
    /\ drv_call.name = "new"
    /\ \E x0 \in CoordSamples, y0 \in CoordSamples, x1 \in CoordSamples, y1 \in CoordSamples :
          Return([name |-> "send_command", args |-> <<x0, y0, x1, y1>>],
                 WriteAll(<<Cmd5(DisplayBitmap, x0, y0, x1, y1)>>, <<"ok">>),
                 "ok")
    /\ UNCHANGED <<orientation, fb565_raw>>
    /\ UNCHANGED pipe_vars
    /\ UNCHANGED img_vars

\* The channel values of the pixels downmixed: the ends and the values around
\* the bits that RGB565 keeps and drops.
ChannelSamples == {0, 3, 4, 7, 8, 17, 28, 34, 68, 85, 170, 248, 252, 255}

\* One-pixel images of every sampled colour, opaque and transparent.
PixelImages ==
    {[width |-> 1, height |-> 1, buffer |-> <<Px(r, g, b, a)>>] :
        r \in ChannelSamples, g \in ChannelSamples, b \in ChannelSamples, a \in {0, 255}}

\* downmix(image, rect, pos): first a whole image at the origin, then one
\* pixel over it or next to it.
downmix_call ==
    /\ drv_call.name \in {"new", "background"}
    /\ \E image \in IF drv_call.name = "new" THEN Images ELSE PixelImages,
          pos \in IF drv_call.name = "new" THEN {Coord(0, 0)} ELSE {Coord(1, 1), Coord(3, 0)} :
          LET rect == Rect(0, 0, image.width, image.height)
              d == downmix(fb565_raw, image, rect, pos, SizeOf(orientation).w)
          IN /\ fb565_raw' = d.fb
             /\ Return([name |-> IF drv_call.name = "new" THEN "background" ELSE "downmix",
                         image |-> image, rect |-> rect, pos |-> pos],
                        << >>, IF d.ok THEN "ok" ELSE "panic")
    /\ UNCHANGED orientation
    /\ UNCHANGED pipe_vars
    /\ UNCHANGED img_vars

NextCodec ==
    \/ send_command
    \/ downmix_call

SpecCodec == InitDriver /\ [][NextCodec]_vars

\* ------------------------------------------------------- geometry: clipping

\* The largest coordinate, extent and bound of the rectangles clipped.
MaxCoord == 3

\* rect.clip(width, height), on its own. The call and its result are kept in
\* img_call.
clip_call ==
    /\ img_call.name = "new"
    /\ \E x \in 0..MaxCoord, y \in 0..MaxCoord, w \in 0..MaxCoord, h \in 0..MaxCoord,
          width \in 0..MaxCoord, height \in 0..MaxCoord :
          img_call' = [name |-> "clip", rect |-> Rect(x, y, w, h),
                       width |-> width, height |-> height,
                       out |-> Clip(Rect(x, y, w, h), width, height)]
    /\ img_res' = "ok"
    /\ UNCHANGED img
    /\ UNCHANGED pipe_vars
    /\ UNCHANGED drv_vars

\* The result of a clip, clipped again to the same bounds.
clip_again ==
    /\ img_call.name = "clip"
    /\ img_call' = [name |-> "clip_again", rect |-> img_call.out,
                    width |-> img_call.width, height |-> img_call.height,
                    out |-> Clip(img_call.out, img_call.width, img_call.height)]
    /\ img_res' = "ok"
    /\ UNCHANGED img
    /\ UNCHANGED pipe_vars
    /\ UNCHANGED drv_vars

NextClip ==
    \/ clip_call
    \/ clip_again

SpecClip == InitDriver /\ [][NextClip]_vars

\* ------------------------------------------------------- images: blending

\* Faulty variant of BlendSum: the channels are not widened, the sum is a u8.
BlendSumU8(bg, fg, a) == (bg * (255 - a) + fg * a) % 256

\* bg.c as u16 * ac + fg.c as u16 * a, with ac = 0x00ff - a: a u16
BlendSum(bg, fg, a) == (bg * (255 - a) + fg * a) % 65536

\* Faulty variant of BlendChannel: the background is weighted by 256 - a.
BlendChannel256(bg, fg, a) == Shr((bg * (256 - a) + fg * a) % 65536, 8) % 256

\* ((bg.c as u16 * ac + fg.c as u16 * a) >> 8) as u8, with ac = 0x00ff - a
BlendChannel(bg, fg, a) == Shr(BlendSum(bg, fg, a), 8) % 256

\* Faulty variant of BlendAlpha: no short circuit for alpha 0 and alpha 255.
BlendAlphaAlwaysMixed(bg, fg) ==
    [r |-> BlendChannel(bg.r, fg.r, fg.a), g |-> BlendChannel(bg.g, fg.g, fg.a),
     b |-> BlendChannel(bg.b, fg.b, fg.a), a |-> bg.a]

\* Image::blend_alpha(bg, fg): the value of *bg on return
BlendAlpha(bg, fg) ==
    IF fg.a = 0 THEN bg
    ELSE IF fg.a = 255 THEN fg
    ELSE [r |-> BlendChannel(bg.r, fg.r, fg.a), g |-> BlendChannel(bg.g, fg.g, fg.a),
          b |-> BlendChannel(bg.b, fg.b, fg.a), a |-> bg.a]

\* The background pixels blended onto: the one of test_blend_alpha, the
\* extremes, and mixed channels with alphas other than 255.
BgPixels ==
    { Px(64, 128, 192, 255), Px(0, 0, 0, 255), Px(255, 255, 255, 0),
      Px(1, 254, 127, 128), Px(255, 0, 85, 1), Px(170, 16, 240, 254) }

\* The foreground colours; every alpha of 0..255 is blended with each.
FgColours ==
    { <<0, 128, 255>>, <<255, 255, 255>>, <<0, 0, 0>>,
      <<255, 0, 1>>, <<127, 129, 254>>, <<16, 85, 170>> }

\* Grey pixels of the channel values around the bits and the ends of 0..255,
\* as backgrounds and as foreground colours.
GreyPixels == {Px(v, v, v, 255) : v \in ChannelSamples}
GreyColours == {<<v, v, v>> : v \in ChannelSamples}

\* blend_alpha(&mut bg, fg), on its own. The call and the pixel it leaves in
\* bg are kept in img_call.
blend_alpha ==
    /\ img_call.name = "new"
    /\ \E bg \in BgPixels \cup GreyPixels, c \in FgColours \cup GreyColours, a \in 0..255 :
          LET fg == Px(c[1], c[2], c[3], a) IN
          img_call' = [name |-> "blend_alpha", bg |-> bg, fg |-> fg,
                       out |-> BlendAlpha(bg, fg)]
    /\ img_res' = "ok"
    /\ UNCHANGED img
    /\ UNCHANGED pipe_vars
    /\ UNCHANGED drv_vars

NextBlend == blend_alpha

SpecBlend == InitDriver /\ [][NextBlend]_vars

\* ---------------------------------------------------- images: operations

\* The 2x2 images of test_copy_image and of test_blend_image.
SrcImages ==
    { [width |-> 2, height |-> 2,
       buffer |-> << Px(1, 1, 1, 1), Px(2, 2, 2, 2), Px(3, 3, 3, 3), Px(4, 4, 4, 4) >>],
      [width |-> 2, height |-> 2,
       buffer |-> << Px(128, 64, 32, 255), Px(128, 64, 32, 128),
                     Px(128, 64, 32, 64), Px(128, 64, 32, 0) >>] }

\* The crops of a 2x2 source: all of it, its second row, its second column,
\* its last pixel, a crop larger than it, and one starting outside it.
ImgCrops ==
    { Rect(0, 0, 2, 2), Rect(0, 1, 2, 1), Rect(1, 0, 1, 2), Rect(1, 1, 1, 1),
      Rect(0, 0, 3, 3), Rect(2, 0, 1, 1) }

\* The destinations in a 3x3 image: inside it, on its far edges, beyond it.
Dests ==
    { Coord(0, 0), Coord(1, 1), Coord(2, 0), Coord(2, 2), Coord(3, 0), Coord(0, 3),
      Coord(4, 0), Coord(0, 4) }

\* self.buffer[y * self.width + x] of an image, for (x, y) inside it
PixelAt(im, x, y) == im.buffer[y * im.width + x + 1]

\* crop.clip(min(image.width, self.width - dest.x),
\*           min(image.height, self.height - dest.y)), the subtractions wrapped
ClipToBoth(self, image, crop, dest) ==
    Clip(crop, Min(image.width, WrappingSub(self.width, dest.x)),
               Min(image.height, WrappingSub(self.height, dest.y)))

\* The rows y.. of the loop of copy_image: the destination image on return
\* and whether the loop returned; a slice out of range panics.
RECURSIVE CopyRows(_, _, _, _, _)
CopyRows(self, image, c, dest, y) ==
    IF y >= c.h THEN [image |-> self, ok |-> TRUE]
    ELSE LET offset == (dest.y + y) * self.width + c.x + dest.x
             src_offset == (c.y + y) * image.width + c.x
         IN IF \/ offset + c.w > Len(self.buffer)
               \/ src_offset + c.w > Len(image.buffer)
            THEN [image |-> self, ok |-> FALSE]
            ELSE CopyRows([self EXCEPT !.buffer =
                              [k \in DOMAIN self.buffer |->
                                  IF k - 1 >= offset /\ k - 1 < offset + c.w
                                  THEN image.buffer[src_offset + (k - 1 - offset) + 1]
                                  ELSE self.buffer[k]]],
                          image, c, dest, y + 1)

\* The pixels n.. of the loops of blend_image, rows first: pixel n is column
\* n mod c.w of row n div c.w. An index out of range panics.
RECURSIVE BlendPixels(_, _, _, _, _)
BlendPixels(self, image, c, dest, n) ==
    IF c.w = 0 \/ n >= c.w * c.h THEN [image |-> self, ok |-> TRUE]
    ELSE LET x == n % c.w
             row == n \div c.w
             offset == dest.y * self.width + dest.x + row * self.width
             src_offset == c.y * image.width + c.x + row * image.width
         IN IF src_offset + x >= Len(image.buffer)
            THEN [image |-> self, ok |-> FALSE]
            ELSE LET fg == image.buffer[src_offset + x + 1] IN
                 IF fg.a = 0
                 THEN BlendPixels(self, image, c, dest, n + 1)
                 ELSE IF offset + x >= Len(self.buffer)
                 THEN [image |-> self, ok |-> FALSE]
                 ELSE BlendPixels([self EXCEPT !.buffer[offset + x + 1] = BlendAlpha(@, fg)],
                                  image, c, dest, n + 1)

\* The pixels n.. of the loops of blend_to_background: the crop is used as
\* given.
RECURSIVE BlendBackPixels(_, _, _, _, _)
BlendBackPixels(self, crop, pos, background, n) ==
    IF crop.w = 0 \/ n >= crop.w * crop.h THEN [image |-> self, ok |-> TRUE]
    ELSE LET x == n % crop.w
             row == n \div crop.w
             offset == pos.y * background.width + pos.x + row * background.width
             src_offset == crop.y * self.width + crop.x + row * self.width
         IN IF \/ src_offset + x >= Len(self.buffer)
               \/ offset + x >= Len(background.buffer)
            THEN [image |-> self, ok |-> FALSE]
            ELSE BlendBackPixels(
                    [self EXCEPT !.buffer[src_offset + x + 1] =
                        BlendAlpha(background.buffer[offset + x + 1], @)],
                    crop, pos, background, n + 1)

\* What a call on img leaves: the image, and "ok" or "panic". With the
\* destination beyond the image, `self.width - dest.x` overflows: a panic in
\* a build with overflow checks, a wrapped bound in a build without.
ImageReturn(call, overflow, build, run) ==
    /\ img_call' = call
    /\ IF overflow /\ build = "debug"
       THEN /\ img_res' = "panic"
            /\ UNCHANGED img
       ELSE /\ img' = run.image
            /\ img_res' = IF run.ok THEN "ok" ELSE "panic"

\* self.copy_image(image, crop, dest) on the image just constructed
copy_image ==
    /\ img_call.name = "new"
    /\ \E image \in SrcImages, crop \in ImgCrops, dest \in Dests, build \in Builds :
          LET overflow == dest.x > img.width \/ dest.y > img.height
              c == ClipToBoth(img, image, crop, dest)
          IN /\ overflow \/ build = "release"
             /\ ImageReturn([name |-> "copy_image", image |-> image, crop |-> crop,
                              dest |-> dest, before |-> img, build |-> build],
                             overflow, build, CopyRows(img, image, c, dest, 0))
    /\ UNCHANGED pipe_vars
    /\ UNCHANGED drv_vars

\* self.blend_image(image, crop, dest) on the image just constructed
blend_image ==
    /\ img_call.name = "new"
    /\ \E image \in SrcImages, crop \in ImgCrops, dest \in Dests, build \in Builds :
          LET overflow == dest.x > img.width \/ dest.y > img.height
              c == ClipToBoth(img, image, crop, dest)
          IN /\ overflow \/ build = "release"
             /\ ImageReturn([name |-> "blend_image", image |-> image, crop |-> crop,
                              dest |-> dest, before |-> img, build |-> build],
                             overflow, build, BlendPixels(img, image, c, dest, 0))
    /\ UNCHANGED pipe_vars
    /\ UNCHANGED drv_vars

\* let mut image = Image { buffer: vec![..], width: 2, height: 2 }
image_literal ==
    /\ img_call.name = "new"
    /\ \E image \in SrcImages : img' = image
    /\ img_call' = [name |-> "literal"]
    /\ img_res' = "none"
    /\ UNCHANGED pipe_vars
    /\ UNCHANGED drv_vars

\* The crops blended with a background: inside a 2x2 image, and larger.
BackCrops ==
    { Rect(0, 0, 2, 2), Rect(0, 0, 1, 1), Rect(1, 1, 1, 1), Rect(0, 1, 2, 1),
      Rect(0, 0, 3, 3), Rect(1, 0, 2, 2) }

\* The positions in a 3x3 background: two where a 2x2 crop fits, two where it
\* reaches past the edge.
BackPositions == { Coord(0, 0), Coord(1, 1), Coord(2, 0), Coord(2, 2) }

\* The backgrounds: Image::new(3, 3), and one of other colours.
Backgrounds ==
    { NewImage(3, 3),
      [width |-> 3, height |-> 3,
       buffer |-> [k \in 1..9 |-> Px(10 * k, 255 - 10 * k, k, 255 - k)]] }

\* image.blend_to_background(crop, pos, background) on a 2x2 image
blend_to_background ==
    /\ img_call.name = "literal"
    /\ \E crop \in BackCrops, pos \in BackPositions, background \in Backgrounds :
          ImageReturn([name |-> "blend_to_background", crop |-> crop, pos |-> pos,
                       background |-> background, before |-> img],
                      FALSE, "release", BlendBackPixels(img, crop, pos, background, 0))
    /\ UNCHANGED pipe_vars
    /\ UNCHANGED drv_vars

NextImage ==
    \/ copy_image
    \/ blend_image
    \/ image_literal
    \/ blend_to_background

SpecImage == InitDriver /\ [][NextImage]_vars

\* ------------------------------------------------------------ fonts: draw

\* The largest height of the text image, (ascent + descent).ceil().
MaxTextHeight == 3

\* pub const TRANSPARENT
TRANSPARENT == Px(0, 0, 0, 0)

\* g.pixel_bounding_box() is None: a glyph without pixels, such as a space.
NoBox == << >>

\* The rows [min, max) of a glyph's pixel bounding box, in text image
\* coordinates; max is the row after the last one, as in rusttype.
Box(min, max) == <<min, max>>

\* The boxes rusttype may hand out for a text image of height h: inside the
\* image, starting above it, ending at its bottom edge.
Boxes(h) ==
    {NoBox} \cup {b \in {Box(min, max) : min \in (0 - 1)..(h - 1), max \in 1..h} : b[1] < b[2]}

\* The glyphs of a string: none, one or two of them.
GlyphLists(h) ==
    {<< >>} \cup {<<b>> : b \in Boxes(h)} \cup {<<b, c>> : b \in Boxes(h), c \in Boxes(h)}

\* set_min!(min_y, bb.min.y) over the glyphs that have a box, from h as i32
RECURSIVE MinY(_, _, _)
MinY(glyphs, i, acc) ==
    IF i > Len(glyphs) THEN acc
    ELSE IF glyphs[i] = NoBox THEN MinY(glyphs, i + 1, acc)
    ELSE MinY(glyphs, i + 1, IF acc > glyphs[i][1] THEN glyphs[i][1] ELSE acc)

\* set_max!(max_y, bb.max.y) over the glyphs that have a box, from 0i32
RECURSIVE MaxY(_, _, _)
MaxY(glyphs, i, acc) ==
    IF i > Len(glyphs) THEN acc
    ELSE IF glyphs[i] = NoBox THEN MaxY(glyphs, i + 1, acc)
    ELSE MaxY(glyphs, i + 1, IF acc < glyphs[i][2] THEN glyphs[i][2] ELSE acc)

\* `v as usize` of an i32: a negative value wraps to the top of the range
AsUsize(v) == IF v < 0 THEN v + UsizeWrap ELSE v

\* The text image after the glyphs are drawn: the pixels of the rows of a
\* box that lie in the image take the colour, with the coverage as alpha.
TextImage(w, h, glyphs, color) ==
    [width |-> w, height |-> h,
     buffer |-> [k \in 1..(w * h) |->
                    IF \E i \in DOMAIN glyphs :
                          /\ glyphs[i] # NoBox
                          /\ (k - 1) \div w >= glyphs[i][1]
                          /\ (k - 1) \div w < glyphs[i][2]
                    THEN Px(color.r, color.g, color.b, 127)
                    ELSE TRANSPARENT]]

\* text_img.blend_to_background(&bb_rect, pos, background) for the rectangle
\* draw computed. A rectangle with rows beyond the text image indexes the
\* buffer out of range as soon as it has a column; one without columns or
\* rows touches nothing.
DrawBlend(text, rect, pos, background) ==
    IF rect.w = 0 \/ rect.h = 0 THEN [image |-> text, ok |-> TRUE]
    ELSE IF \/ rect.y > text.height
            \/ rect.h > text.height + 1
            \/ rect.y + rect.h > text.height + 1
    THEN [image |-> text, ok |-> FALSE]
    ELSE BlendBackPixels(text, rect, pos, background, 0)

\* Font::draw(background, size, color, pos, msg): w and h are the size of the
\* text image, glyphs the boxes of the glyphs laid out for msg. The call and
\* the rectangle it computes are kept in img_call, the text image in img.
\* `max_y - min_y + 1` is usize arithmetic: it panics on overflow in a build
\* with overflow checks and wraps in a build without.
draw ==
    /\ img_call.name = "new"
    /\ \E h \in 1..MaxTextHeight, w \in {0, 2}, build \in Builds :
       \E glyphs \in GlyphLists(h) :
          LET min_y == AsUsize(MinY(glyphs, 1, h))
              max_y == AsUsize(MaxY(glyphs, 1, 0))
              diff == WrappingSub(max_y, min_y)
              overflow == max_y < min_y \/ diff = UsizeWrap - 1
              bb_rect == Rect(0, min_y, w, (diff + 1) % UsizeWrap)
              text == TextImage(w, h, glyphs, Px(255, 255, 255, 255))
              run == DrawBlend(text, bb_rect, Coord(0, 0), NewImage(3, MaxTextHeight + 2))
          IN /\ overflow \/ build = "release"
             /\ img_call' = [name |-> "draw", w |-> w, h |-> h, glyphs |-> glyphs,
                             build |-> build,
                             rect |-> IF overflow /\ build = "debug"
                                      THEN Rect(0, min_y, w, 0) ELSE bb_rect]
             /\ img' = IF overflow /\ build = "debug" THEN text ELSE run.image
             /\ img_res' = IF (overflow /\ build = "debug") \/ ~run.ok THEN "panic" ELSE "ok"
    /\ UNCHANGED pipe_vars
    /\ UNCHANGED drv_vars

NextDraw == draw

SpecDraw == InitDriver /\ [][NextDraw]_vars

\* ------------------------------------------------- display driver: the specs

\* The operations of the driver of screen_rev_a.rs, called in any order.
NextDriver ==
    \/ init
    \/ clear
    \/ screen_on_off
    \/ set_orientation
    \/ set_brightness
    \/ display_image

SpecDriver == InitDriver /\ [][NextDriver]_vars

\* The two operations that take pixel data: display_image of screen_rev_a.rs
\* and draw_bitmap of screen.rs.
NextBitmap ==
    \/ display_image
    \/ draw_bitmap

SpecBitmap == InitDriver /\ [][NextBitmap]_vars

\* ------------------------------------------------------------ specification

Next ==
    \/ RegisterMeters
    \/ SchedDrop
    \/ SchedStart
    \/ SchedPoll
    \/ SchedSend
    \/ SchedSleep
    \/ RendererNew
    \/ RendRecv
    \/ RendRender

Spec == Init /\ [][Next]_vars

\* The scheduler runs on the main thread, which the OS keeps scheduling.
FairSpec == Spec /\ WF_vars(SchedLoop)

\* ------------------------------------------------------------------- steps

\* The scheduler's poll, publish and receive steps, as seen on a transition.
PollStep == sched_pc = "poll" /\ sched_pc' # "poll"
PublishStep == sched_pc = "send" /\ sched_pc' # "send" /\ RefreshDue
PublishOnFull == PublishStep /\ rx_alive /\ Len(chan) >= ChannelCap
RecvStep == rend_pc = "recv" /\ rend_pc' = "render"
RecvError == rend_pc = "recv" /\ rend_warnings' # rend_warnings

Snapshots == Range(chan) \cup (IF rend_meas = NoMeas THEN {} ELSE {rend_meas})

\* ------------------------------------------------------------------ claims

\* C1: when a due task's measure() returns an error, the snapshot entry of
\* that meter keeps the value it had before the tick; only a successful
\* measure() changes an entry.
C1_FailedMeasureKeepsValue ==
    [][\A res \in [DueTasks -> Outcomes] :
          PollWith(res) =>
             /\ \A i \in DueTasks :
                   ~res[i].ok => meter_map'[tasks[i].id] = meter_map[tasks[i].id]
             /\ \A id \in DOMAIN meter_map :
                   meter_map'[id] # meter_map[id] =>
                      \E i \in DueTasks : tasks[i].id = id /\ res[i].ok]_vars

\* C2: the channel never holds more than one pending snapshot, and the
\* scheduler's publish step can always be taken, whatever the channel holds
\* and whether or not the renderer is still there.
C2_SingleSlotNeverBlocks ==
    /\ Len(chan) <= 1
    /\ sched_pc = "send" => ENABLED SchedSend

C2_Witness ==
    /\ sched_pc = "sleep"
    /\ last_refresh = now
    /\ now > 0
    /\ Len(chan) = 1
    /\ rend_pc = "new"

\* C3: a publish attempted while the previous snapshot is still pending
\* leaves the pending snapshot exactly as it was, discards the new one, and
\* the loop goes on to its sleep with the scheduler's map untouched.
C3_PublishOnFullIsDropped ==
    [][PublishOnFull =>
          /\ chan' = chan
          /\ sched_pc' = "sleep"
          /\ meter_map' = meter_map
          /\ last_refresh' = now]_vars

C3_Witness ==
    /\ sched_pc = "sleep"
    /\ last_refresh = now
    /\ rx_alive
    /\ Len(chan) = 1
    /\ Head(chan) # meter_map

\* C4 as stated: a publish while a snapshot is pending replaces the pending
\* snapshot by the new one (latest value wins).
C4_OverwriteOnFull ==
    [][PublishOnFull => chan' = <<Clone(meter_map)>>]_vars

\* C4 as amended: a publish while a snapshot is pending keeps the pending
\* snapshot at the head of the slot, and the renderer's next receive returns
\* that pending snapshot (earliest value wins).
C4_PendingWins ==
    [][/\ PublishOnFull => (Len(chan') = Len(chan) /\ Head(chan') = Head(chan))
       /\ RecvStep => (chan # << >> /\ rend_meas' = Head(chan))]_vars

\* The renderer holds a snapshot that differs from the one the scheduler
\* tried to publish last, and that attempt left nothing else in the channel.
C4_Witness ==
    /\ sched_pc = "sleep"
    /\ last_refresh = now
    /\ chan = << >>
    /\ rend_pc = "render"
    /\ rend_meas # meter_map

C6_SnapshotsAreCopies ==
    [][/\ Len(chan') > Len(chan) => (PublishStep /\ chan' = Append(chan, meter_map))
       /\ (chan # << >> /\ Len(chan') = Len(chan)) => chan' = chan
       /\ (rend_meas = NoMeas /\ rend_meas' # NoMeas) =>
             (chan # << >> /\ rend_meas' = Head(chan))
       /\ (rend_meas # NoMeas /\ rend_meas' # NoMeas) => rend_meas' = rend_meas]_vars

\* A pending snapshot and a held one, both older than the scheduler's map.
C6_Witness ==
    /\ Len(chan) = 1
    /\ Head(chan) # meter_map
    /\ rend_meas # NoMeas
    /\ rend_meas # meter_map
    /\ rend_meas # Head(chan)

\* C7: the scheduler's map and every published snapshot have exactly the
\* key set built at startup, one key per configured meter.
C7_KeySetFixed ==
    /\ DOMAIN meter_map = ConfigIds(configs)
    /\ \A m \in Snapshots : DOMAIN m = ConfigIds(configs)

\* Ticks with a meter that could not be created, and a snapshot received.
C7_Witness ==
    /\ Len(tasks) = 2
    /\ measured[1] >= 2
    /\ rend_meas # NoMeas
    /\ Len(chan) = 1
    /\ \E id \in DOMAIN meter_map : meter_map[id] # 0

\* C8: when the channel is closed (sender dropped, nothing pending), a
\* receive error makes Renderer::start leave its loop and return.
C8_ReturnsWhenClosed ==
    [][RecvError => rend_pc' = "returned"]_vars

\* C9: once started the scheduler is always in its loop, its next step can
\* always be taken (up to the model's time bound), every poll measures
\* every due task, and under fair scheduling it keeps polling until the time
\* bound: no failing meter, full slot or vanished renderer stops it.
C9_SchedulerNeverStops ==
    /\ [](sched_pc \notin {"new", "idle", "dropped"} =>
             /\ sched_pc \in {"poll", "send", "sleep"}
             /\ now < MaxTime => ENABLED SchedLoop)
    /\ [][PollStep => \A i \in DueTasks : measured'[i] = measured[i] + 1]_vars
    /\ (sched_pc = "poll") ~> (sched_pc = "poll" /\ now >= MaxTime)

\* The renderer is gone and the scheduler has measured again since.
C9_Witness ==
    /\ ~rx_alive
    /\ now >= MaxTime
    /\ Len(tasks) = 3
    /\ measured[1] >= 2
    /\ sched_pc = "sleep"

\* C10: a font that fails to load is fatal to the process: once the renderer
\* has failed on it, the scheduler does not go on running.
C10_FontFailureStopsProcess ==
    [][rend_pc = "panicked" => UNCHANGED sched_vars]_vars

\* C11: Renderer::new reads each distinct font file at most once: when it
\* returns, the number of font files read is the number of distinct font paths
\* among the text widgets, and every text widget's font path is in the cache;
\* when it panics it has read no more files than there are distinct paths.
C11_FontsLoadedOnce ==
    LET paths == {<<"res/fonts", configs[i].font>> :
                     i \in {j \in DOMAIN configs : configs[j].font # NoFont}}
    IN /\ rend_pc = "recv" =>
             /\ font_loads = Cardinality(paths)
             /\ paths \subseteq font_map
       /\ rend_pc = "panicked" => font_loads <= Cardinality(paths)

\* Three text widgets over two font files, one file shared by two widgets.
C11_Witness ==
    /\ rend_pc = "recv"
    /\ Len(configs) = 3
    /\ \A i \in DOMAIN configs : configs[i].font # NoFont
    /\ configs[1].font = configs[3].font
    /\ configs[1].font # configs[2].font
    /\ font_loads = 2

\* ------------------------------------------------------------ driver's log

\* The writes of the last driver call that carry a command: every write but
\* the pixel rows that follow a DisplayBitmap command.
CommandWrites ==
    {i \in DOMAIN port_log :
        /\ port_log[i].call = "write"
        /\ drv_call.name \in {"display_image", "draw_bitmap"} => i = 1}

\* The opcode of the i-th command a driver call writes.
OpcodeOf(name, i) ==
    CASE name = "init" -> 69
      [] name = "clear" -> IF i = 1 THEN 121 ELSE 102
      [] name = "screen_off" -> 108
      [] name = "screen_on" -> 109
      [] name = "set_brightness" -> 110
      [] name = "set_orientation" -> 121
      [] name \in {"display_image", "draw_bitmap"} -> 197

DriverErrors == {"io_error", "incompatible", "dimensions_error"}

\* C12: init() writes the Hello frame 00 00 00 00 00 45 first and then reads
\* six bytes; it returns Ok exactly when the six bytes read are
\* 01 01 01 01 01 01, and an error for any other reply.
C12_InitHandshake ==
    drv_call.name = "init" =>
       /\ Len(port_log) \in {1, 2}
       /\ port_log[1].call = "write"
       /\ port_log[1].data = <<0, 0, 0, 0, 0, 69>>
       /\ port_log[1].out # "err" =>
             /\ Len(port_log) = 2
             /\ port_log[2].call = "read"
             /\ port_log[2].out = "ok" => Len(port_log[2].data) = 6
       /\ drv_res = "ok" <=>
             /\ Len(port_log) = 2
             /\ port_log[2].out = "ok"
             /\ port_log[2].data = <<1, 1, 1, 1, 1, 1>>
       /\ drv_res # "ok" => drv_res \in DriverErrors

\* init() has read a reply that differs from the magic in one byte.
C12_Witness ==
    /\ drv_call.name = "init"
    /\ Len(port_log) = 2
    /\ port_log[2].data = <<1, 1, 1, 1, 1, 2>>
    /\ drv_res = "incompatible"

\* C13 as stated: every command the driver writes is a frame of exactly six
\* bytes whose sixth byte is the command's opcode.
C13_EveryFrameSixBytes ==
    \A i \in CommandWrites :
       /\ Len(port_log[i].data) = 6
       /\ port_log[i].data[6] = OpcodeOf(drv_call.name, i)

\* C13 amended: every command the driver writes has its opcode in the sixth
\* byte; the SetOrientation command is sixteen bytes long, every other one six.
C13_FrameLengths ==
    \A i \in CommandWrites :
       /\ port_log[i].data[6] = OpcodeOf(drv_call.name, i)
       /\ Len(port_log[i].data) = IF OpcodeOf(drv_call.name, i) = 121 THEN 16 ELSE 6

\* set_orientation has written its sixteen bytes.
C13_Witness ==
    /\ drv_call.name = "set_orientation"
    /\ drv_res = "ok"
    /\ 1 \in CommandWrites
    /\ Len(port_log[1].data) = 16
    /\ port_log[1].data[6] = 121

\* The k-th bit, from the most significant one, of a sequence of n-bit values.
BitAt(vals, n, k) == (vals[(k \div n) + 1] \div Pow2(n - 1 - (k % n))) % 2

\* Four 10-bit values read back from five bytes.
Unpack10(d) ==
    << d[1] * 4 + d[2] \div 64,
       (d[2] % 64) * 16 + d[3] \div 16,
       (d[3] % 16) * 64 + d[4] \div 4,
       (d[4] % 4) * 256 + d[5] >>

\* C14: for coordinates in 0..1023 the first five bytes of the DisplayBitmap
\* frame are the four 10-bit values one after the other, most significant bit
\* first, so that reading the five bytes back gives the four coordinates;
\* (1,1,4,1) is packed as 00 40 10 10 01.
C14_CoordinatePacking ==
    drv_call.name = "send_command" =>
       LET d == port_log[1].data
           c == drv_call.args
       IN /\ Len(d) = 6
          /\ d[6] = 197
          /\ \A i \in 1..5 : d[i] \in 0..255
          /\ \A k \in 0..39 : BitAt(d, 8, k) = BitAt(c, 10, k)
          /\ Unpack10(d) = c
          /\ c = <<1, 1, 4, 1>> => d = <<0, 64, 16, 16, 1, 197>>

\* The rectangle of the driver's own test has been packed.
C14_Witness ==
    /\ drv_call.name = "send_command"
    /\ drv_call.args = <<1, 1, 4, 1>>
    /\ port_log[1].data = <<0, 64, 16, 16, 1, 197>>

\* C15: for a clipped rectangle r that is not empty, display_image writes one
\* DisplayBitmap frame with the inclusive corners (pos.x, pos.y,
\* pos.x + r.w - 1, pos.y + r.h - 1) and after it r.h rows of 2 * r.w bytes
\* each, in this order; the frame is the first write, and fewer rows are
\* written only when a write has failed.
C15_FrameThenRows ==
    (/\ drv_call.name = "display_image"
     /\ drv_call.r.w > 0
     /\ drv_call.r.h > 0
     /\ drv_res # "panic") =>
       LET r == drv_call.r
           pos == drv_call.pos
           n == Len(port_log)
       IN /\ n >= 1
          /\ n <= 1 + r.h
          /\ \A i \in 1..n : port_log[i].call = "write"
          /\ Len(port_log[1].data) = 6
          /\ port_log[1].data[6] = 197
          /\ Unpack10(port_log[1].data) =
                <<pos.x, pos.y, pos.x + r.w - 1, pos.y + r.h - 1>>
          /\ \A i \in 2..n : Len(port_log[i].data) = 2 * r.w
          /\ drv_res = "ok" => n = 1 + r.h
          /\ n < 1 + r.h => port_log[n].out = "err"

\* A rectangle of two rows of three pixels has been sent whole.
C15_Witness ==
    /\ drv_call.name = "display_image"
    /\ drv_call.r.w = 3
    /\ drv_call.r.h = 2
    /\ drv_call.pos = Coord(1, 1)
    /\ drv_res = "ok"
    /\ Len(port_log) = 3
    /\ Len(port_log[3].data) = 6

\* The bytes of the buffer that downmix(image, rect, pos) is to write.
TargetRegion(rect, pos, width) ==
    {2 * ((pos.y + j) * width + pos.x + i) + b :
        j \in 0..(rect.h - 1), i \in 0..(rect.w - 1), b \in 0..1}

\* C16: downmix stores, for every pixel (r,g,b,a) of the rectangle, the two
\* bytes [((g & 0x1c) << 3) | (b >> 3), (r & 0xf8) | (g >> 5)], the RGB565 word
\* low byte first; the word read back is (r & 0xF8, g & 0xFC, b & 0xF8)
\* whatever the alpha, and the bytes of the buffer outside the rectangle's
\* place on the screen keep their values.
C16_DownmixPacksRgb565 ==
    [][drv_call'.name \in {"background", "downmix"} /\ drv_calls' # drv_calls =>
         LET image == drv_call'.image
             rect == drv_call'.rect
             pos == drv_call'.pos
         IN /\ \A ofs \in (DOMAIN fb565_raw \cup DOMAIN fb565_raw') \ TargetRegion(rect, pos, 320) :
                  FbGet(fb565_raw', ofs) = FbGet(fb565_raw, ofs)
            /\ \A j \in 0..(rect.h - 1), i \in 0..(rect.w - 1) :
                  LET p == image.buffer[(rect.y + j) * image.width + rect.x + i + 1]
                      dest == 2 * ((pos.y + j) * 320 + pos.x + i)
                      lo == FbGet(fb565_raw', dest)
                      hi == FbGet(fb565_raw', dest + 1)
                      word == hi * 256 + lo
                  IN /\ lo = ((p.g \div 4) % 8) * 32 + p.b \div 8
                     /\ hi = (p.r \div 8) * 8 + p.g \div 32
                     /\ (word \div 2048) * 8 = p.r - (p.r % 8)
                     /\ ((word \div 32) % 64) * 4 = p.g - (p.g % 4)
                     /\ (word % 32) * 8 = p.b - (p.b % 8)]_vars

\* The pixel (0xFF, 0x00, 0xFF) has been stored as 1F F8 over a pixel of the
\* image downmixed before, whose neighbours are still there.
C16_Witness ==
    /\ drv_call.name = "downmix"
    /\ drv_call.pos = Coord(1, 1)
    /\ drv_call.image.buffer[1].r = 255
    /\ drv_call.image.buffer[1].g = 0
    /\ drv_call.image.buffer[1].b = 255
    /\ drv_call.image.buffer[1].a = 0
    /\ FbGet(fb565_raw, 642) = 31
    /\ FbGet(fb565_raw, 643) = 248
    /\ FbGet(fb565_raw, 640) = 95
    /\ FbGet(fb565_raw, 641) = 85

\* C17: each Clear frame written to the transport comes right after a
\* SetOrientation command that selects portrait (orientation byte 100, 320 by
\* 480), and when clear() has returned the driver's orientation is Portrait.
C17_ClearAfterPortrait ==
    /\ \A i \in CommandWrites :
          port_log[i].data = <<0, 0, 0, 0, 0, 102>> =>
             /\ i > 1
             /\ port_log[i - 1].call = "write"
             /\ port_log[i - 1].data = <<0, 0, 0, 0, 0, 121, 100, 1, 64, 1, 224, 0, 0, 0, 0, 0>>
    /\ drv_call.name = "clear" => orientation = "Portrait"

\* clear() has returned Ok as the second call made to the driver.
C17_Witness ==
    /\ drv_call.name = "clear"
    /\ drv_calls = 2
    /\ drv_res = "ok"
    /\ Len(port_log) = 2
    /\ port_log[2].data = <<0, 0, 0, 0, 0, 102>>

\* C18: the orientation changes only in set_orientation and clear, and is the
\* one set last; screen_size() is 320x480 in Portrait and ReversePortrait and
\* 480x320 in Landscape and ReverseLandscape; every SetOrientation command
\* carries the orientation being set and its width and height, each as two
\* bytes, high byte first.
C18_SizeFollowsOrientation ==
    /\ [](/\ screen_size = IF orientation \in {"Portrait", "ReversePortrait"}
                           THEN [w |-> 320, h |-> 480]
                           ELSE [w |-> 480, h |-> 320]
          /\ drv_call.name = "set_orientation" => orientation = drv_call.o
          /\ drv_call.name = "clear" => orientation = "Portrait"
          /\ \A i \in CommandWrites :
                port_log[i].data[6] = 121 =>
                   LET d == port_log[i].data
                       code == CASE orientation = "Portrait" -> 0
                                 [] orientation = "ReversePortrait" -> 1
                                 [] orientation = "Landscape" -> 2
                                 [] orientation = "ReverseLandscape" -> 3
                   IN /\ d[7] = 100 + code
                      /\ d[8] * 256 + d[9] = IF code \in {0, 1} THEN 320 ELSE 480
                      /\ d[10] * 256 + d[11] = IF code \in {0, 1} THEN 480 ELSE 320)
    /\ [][orientation' # orientation =>
            drv_call'.name \in {"set_orientation", "clear"}]_vars

\* ReverseLandscape has been set as the second call: 480 = 01 E0, 320 = 01 40.
C18_Witness ==
    /\ drv_call.name = "set_orientation"
    /\ drv_call.o = "ReverseLandscape"
    /\ drv_calls = 2
    /\ screen_size = [w |-> 480, h |-> 320]
    /\ port_log[1].data = <<0, 0, 0, 0, 0, 121, 103, 1, 224, 1, 64, 0, 0, 0, 0, 0>>

\* C19: a bitmap draw whose pixel data is smaller than its rectangle needs
\* (draw_bitmap: fewer than 2 bytes per pixel of w x h; display_image: a crop
\* that reaches beyond the image) returns an error: it does not panic and it
\* does not return Ok.
C19_ShortDataIsAnError ==
    /\ (/\ drv_call.name = "draw_bitmap"
        /\ Len(drv_call.data) < 2 * drv_call.w * drv_call.h)
          => drv_res \in DriverErrors
    /\ (/\ drv_call.name = "display_image"
        /\ drv_call.r.w > 0
        /\ drv_call.r.h > 0
        /\ \/ drv_call.r.x + drv_call.r.w > drv_call.image.width
           \/ drv_call.r.y + drv_call.r.h > drv_call.image.height)
          => drv_res \in DriverErrors

\* C20: when a transport write or read of a driver call fails, the call
\* returns the I/O error and makes no further transport call: the failed call
\* is the last one of the log.
C20_FailureEndsTheCall ==
    \A i \in DOMAIN port_log :
       port_log[i].out = "err" =>
          /\ i = Len(port_log)
          /\ drv_res = "io_error"

\* The first of two pixel rows could not be written; the second was not sent.
C20_Witness ==
    /\ drv_call.name = "display_image"
    /\ drv_call.r.h = 2
    /\ Len(port_log) = 2
    /\ port_log[1].out = "ok"
    /\ port_log[2].out = "err"
    /\ drv_res = "io_error"

C22_BrightnessFrame ==
    drv_call.name = "set_brightness" =>
       /\ Len(port_log) = 1
       /\ port_log[1].call = "write"
       /\ port_log[1].data = <<255 - (drv_call.level % 256), 0, 0, 0, 0, 110>>

\* set_brightness(0x55) has written AA 00 00 00 00 6E.
C22_Witness ==
    /\ drv_call.name = "set_brightness"
    /\ drv_call.level = 85
    /\ drv_res = "ok"
    /\ port_log[1].data = <<170, 0, 0, 0, 0, 110>>

\* ------------------------------------------------------------- clipping

\* A call of clip, first or repeated.
ClipCalled == img_call.name \in {"clip", "clip_again"}

\* C23 as stated: the clipped rectangle never extends past the bounds,
\* x + w <= W and y + h <= H.
C23_NeverPastBounds ==
    ClipCalled =>
       /\ img_call.out.x + img_call.out.w <= img_call.width
       /\ img_call.out.y + img_call.out.h <= img_call.height

\* C23: the clipped rectangle covers nothing outside the bounds: when the
\* origin of R is inside them, x + w <= W and y + h <= H; when it is not
\* (R.x >= W or R.y >= H), w = 0 and h = 0, with the origin kept where it was.
C23_NothingOutsideBounds ==
    ClipCalled =>
       IF img_call.rect.x < img_call.width /\ img_call.rect.y < img_call.height
       THEN /\ img_call.out.x + img_call.out.w <= img_call.width
            /\ img_call.out.y + img_call.out.h <= img_call.height
       ELSE /\ img_call.out.w = 0
            /\ img_call.out.h = 0
            /\ img_call.out.x = img_call.rect.x
            /\ img_call.out.y = img_call.rect.y

\* A rectangle reaching past both bounds has been cut back to them.
C23_Witness ==
    /\ img_call.name = "clip"
    /\ img_call.rect = Rect(1, 1, 3, 3)
    /\ img_call.width = 3
    /\ img_call.height = 2
    /\ img_call.out = Rect(1, 1, 2, 1)

\* C24: clip keeps the origin of R; with R.x >= W or R.y >= H the result has
\* w = 0 and h = 0, otherwise w = min(R.w, W - R.x) and h = min(R.h, H - R.y);
\* and clipping a result again to the same bounds returns it unchanged.
C24_ClipFormulaIdempotent ==
    /\ ClipCalled =>
          /\ img_call.out.x = img_call.rect.x
          /\ img_call.out.y = img_call.rect.y
          /\ IF img_call.rect.x >= img_call.width \/ img_call.rect.y >= img_call.height
             THEN img_call.out.w = 0 /\ img_call.out.h = 0
             ELSE /\ img_call.out.w = Min(img_call.rect.w, img_call.width - img_call.rect.x)
                  /\ img_call.out.h = Min(img_call.rect.h, img_call.height - img_call.rect.y)
    /\ img_call.name = "clip_again" => img_call.out = img_call.rect

\* A result that was cut back has been clipped again.
C24_Witness ==
    /\ img_call.name = "clip_again"
    /\ img_call.rect = Rect(1, 2, 2, 1)
    /\ img_call.width = 3
    /\ img_call.height = 3
    /\ img_call.out = Rect(1, 2, 2, 1)

\* ------------------------------------------------------------- blending

\* C27: blend_alpha with foreground alpha 0 leaves the four channels of the
\* background as they were, and with foreground alpha 255 makes the r, g, b
\* of the background equal to those of the foreground.
C27_BlendExtremes ==
    img_call.name = "blend_alpha" =>
       /\ img_call.fg.a = 0 => img_call.out = img_call.bg
       /\ img_call.fg.a = 255 =>
             /\ img_call.out.r = img_call.fg.r
             /\ img_call.out.g = img_call.fg.g
             /\ img_call.out.b = img_call.fg.b

\* An opaque foreground has replaced a background of other colours.
C27_Witness ==
    /\ img_call.name = "blend_alpha"
    /\ img_call.bg = Px(1, 254, 127, 128)
    /\ img_call.fg = Px(255, 0, 1, 255)
    /\ img_call.out.r = 255
    /\ img_call.out.g = 0
    /\ img_call.out.b = 1

\* C28: for a foreground alpha a of 1..254, blend_alpha sets each of r, g, b
\* to floor((bg * (255 - a) + fg * a) / 256) and leaves the alpha of the
\* background as it was; background (0x40, 0x80, 0xC0) under foreground
\* (0x00, 0x80, 0xFF, 0x80) becomes (0x1F, 0x7F, 0xDE).
C28_BlendFixedPoint ==
    (img_call.name = "blend_alpha" /\ img_call.fg.a \in 1..254) =>
       LET a == img_call.fg.a
           mix(bg, fg) == (bg * (255 - a) + fg * a) \div 256
       IN /\ img_call.out.r = mix(img_call.bg.r, img_call.fg.r)
          /\ img_call.out.g = mix(img_call.bg.g, img_call.fg.g)
          /\ img_call.out.b = mix(img_call.bg.b, img_call.fg.b)
          /\ img_call.out.a = img_call.bg.a
          /\ (img_call.bg = Px(64, 128, 192, 255) /\ img_call.fg = Px(0, 128, 255, 128)) =>
                img_call.out = Px(31, 127, 222, 255)

\* The blend of test_blend_alpha.
C28_Witness ==
    /\ img_call.name = "blend_alpha"
    /\ img_call.bg = Px(64, 128, 192, 255)
    /\ img_call.fg = Px(0, 128, 255, 128)
    /\ img_call.out = Px(31, 127, 222, 255)

\* ------------------------------------------------------- image operations

\* Pixel (x, y) of the destination is one that the crop, as far as it lies in
\* the source and fits in the destination at dest, is placed on.
InPlacedCrop(call, x, y) ==
    /\ x >= call.dest.x
    /\ y >= call.dest.y
    /\ x - call.dest.x < call.crop.w
    /\ y - call.dest.y < call.crop.h
    /\ call.crop.x + (x - call.dest.x) < call.image.width
    /\ call.crop.y + (y - call.dest.y) < call.image.height

\* The source pixel placed on pixel (x, y) of the destination.
SourceFor(call, x, y) ==
    PixelAt(call.image, call.crop.x + (x - call.dest.x), call.crop.y + (y - call.dest.y))

\* C25: for every source image, crop and destination coordinate, one beyond
\* the destination's width or height and a crop starting outside the source
\* included, copy_image and blend_image return without a panic and leave a
\* destination buffer of width * height pixels.
C25_CopyAndBlendNeverPanic ==
    img_call.name \in {"copy_image", "blend_image"} =>
       /\ img_res = "ok"
       /\ Len(img.buffer) = img.width * img.height

\* C26: after copy_image(src, crop, dest) with dest in the destination, each
\* destination pixel (dest.x + i, dest.y + j), for i < crop.w, j < crop.h and
\* (crop.x + i, crop.y + j) in the source, equals that source pixel, alpha
\* included, and every other destination pixel is as it was.
C26_CopyPlacesCropAtDest ==
    (/\ img_call.name = "copy_image"
     /\ img_call.dest.x <= img_call.before.width
     /\ img_call.dest.y <= img_call.before.height) =>
       /\ img_res = "ok"
       /\ \A x \in 0..(img.width - 1), y \in 0..(img.height - 1) :
             PixelAt(img, x, y) =
                IF InPlacedCrop(img_call, x, y) THEN SourceFor(img_call, x, y)
                ELSE PixelAt(img_call.before, x, y)

\* C29: after blend_image(src, crop, dest) with dest in the destination, each
\* destination pixel (dest.x + i, dest.y + j) of the crop, as far as it lies
\* in the source and fits in the destination, is blend_alpha of its previous
\* value with source pixel (crop.x + i, crop.y + j), which leaves it as it
\* was for a source alpha of 0; every other destination pixel is as it was.
C29_BlendImageOverRegion ==
    (/\ img_call.name = "blend_image"
     /\ img_call.dest.x <= img_call.before.width
     /\ img_call.dest.y <= img_call.before.height) =>
       /\ img_res = "ok"
       /\ \A x \in 0..(img.width - 1), y \in 0..(img.height - 1) :
             PixelAt(img, x, y) =
                IF InPlacedCrop(img_call, x, y)
                THEN BlendAlpha(PixelAt(img_call.before, x, y), SourceFor(img_call, x, y))
                ELSE PixelAt(img_call.before, x, y)

\* C30: blend_to_background(crop, pos, background), also with a crop larger
\* than the image or reaching past the edge of the background, returns
\* without an index out of range, and each pixel (x, y) of the image that is
\* in the crop and has a background pixel under it is then the blend of its
\* previous value over background pixel (pos.x + x - crop.x, pos.y + y - crop.y).
C30_BlendToBackgroundClips ==
    img_call.name = "blend_to_background" =>
       /\ img_res = "ok"
       /\ \A x \in 0..(img.width - 1), y \in 0..(img.height - 1) :
             LET bx == img_call.pos.x + x - img_call.crop.x
                 by == img_call.pos.y + y - img_call.crop.y
             IN (/\ x >= img_call.crop.x
                 /\ y >= img_call.crop.y
                 /\ x < img_call.crop.x + img_call.crop.w
                 /\ y < img_call.crop.y + img_call.crop.h
                 /\ bx < img_call.background.width
                 /\ by < img_call.background.height) =>
                   PixelAt(img, x, y) =
                      BlendAlpha(PixelAt(img_call.background, bx, by),
                                 PixelAt(img_call.before, x, y))

\* ------------------------------------------------- the crop on the screen

\* The RGB565 bytes of row j of a crop of an image, two for each pixel.
CropRowBytes(image, crop, j) ==
    [k \in 1..(2 * crop.w) |->
        LET p == image.buffer[(crop.y + j) * image.width + crop.x + ((k - 1) \div 2) + 1]
        IN IF k % 2 = 1 THEN PackLo(p) ELSE PackHi(p)]

\* C31: for a crop lying inside the image and a position where it fits on the
\* screen (pos.x + crop.w <= width, pos.y + crop.h <= height), display_image
\* returning Ok has written the DisplayBitmap frame for the corners (pos.x,
\* pos.y, pos.x + crop.w - 1, pos.y + crop.h - 1) and then the RGB565 bytes
\* of the image pixels (crop.x + i, crop.y + j), row by row: the crop is not
\* reduced, whatever its own origin.
C31_FittingCropSentWhole ==
    (/\ drv_call.name = "display_image"
     /\ drv_res = "ok"
     /\ drv_call.crop.w > 0
     /\ drv_call.crop.h > 0
     /\ drv_call.crop.x + drv_call.crop.w <= drv_call.image.width
     /\ drv_call.crop.y + drv_call.crop.h <= drv_call.image.height
     /\ drv_call.pos.x + drv_call.crop.w <= screen_size.w
     /\ drv_call.pos.y + drv_call.crop.h <= screen_size.h) =>
       LET crop == drv_call.crop
           pos == drv_call.pos
       IN /\ Len(port_log) = 1 + crop.h
          /\ port_log[1].data = Cmd5(DisplayBitmap, pos.x, pos.y,
                                     pos.x + crop.w - 1, pos.y + crop.h - 1)
          /\ \A j \in 1..crop.h :
                port_log[1 + j].data = CropRowBytes(drv_call.image, crop, j - 1)

\* ---------------------------------------------------- the scheduler's ticks

\* The publish step of a tick, due or not.
SendStep == sched_pc = "send" /\ sched_pc' # "send"

C34_OkMeansAllBytesAccepted ==
    (/\ drv_call.name = "display_image"
     /\ drv_res = "ok"
     /\ drv_call.r.w > 0
     /\ drv_call.r.h > 0) =>
       /\ Len(port_log) = 1 + drv_call.r.h
       /\ Len(port_log[1].data) = 6
       /\ \A i \in 2..Len(port_log) : Len(port_log[i].data) = 2 * drv_call.r.w
       /\ \A i \in DOMAIN port_log : port_log[i].out = "ok"

\* ----------------------------------------------------- failed orientation

\* A call of set_orientation, as seen on a transition.
SetOrientationStep == drv_calls' = drv_calls + 1 /\ drv_call'.name = "set_orientation"

\* C35: when set_orientation(o) returns an error because the write failed,
\* the stored orientation and the size screen_size() reports are those from
\* before the call.
C35_FailedOrientationKept ==
    [][(SetOrientationStep /\ drv_res' \in DriverErrors) =>
          /\ orientation' = orientation
          /\ SizeOf(orientation') = SizeOf(orientation)]_vars

\* ------------------------------------------------------------ drawing text

\* C36: for every string, the empty one and those whose glyphs have no pixel
\* bounding box included, and for glyph boxes starting above the text image
\* or ending at its bottom edge, Font::draw returns, with a bounding
\* rectangle whose rows lie in the text image (y + h <= height), computed
\* without overflow or wrap.
C36_TextBoxInsideImage ==
    img_call.name = "draw" =>
       /\ img_res = "ok"
       /\ img_call.rect.y <= img_call.h
       /\ img_call.rect.h <= img_call.h
       /\ img_call.rect.y + img_call.rect.h <= img_call.h

\* ------------------------------------------------------ blend arithmetic

\* The channels of a pixel.
ChannelsOf(p) == <<p.r, p.g, p.b>>

\* C37: for the channel values bg and fg and the alpha a of a blend, the sum
\* bg * (255 - a) + fg * a does not exceed 65535, and the sum blend_alpha
\* computes in 16 bits is that sum: nothing wraps.
C37_BlendSumFitsU16 ==
    img_call.name = "blend_alpha" =>
       \A k \in 1..3 :
          LET bg == ChannelsOf(img_call.bg)[k]
              fg == ChannelsOf(img_call.fg)[k]
              a == img_call.fg.a
          IN /\ bg * (255 - a) + fg * a <= 65535
             /\ BlendSum(bg, fg, a) = bg * (255 - a) + fg * a
             /\ a \in 1..254 =>
                   ChannelsOf(img_call.out)[k] = (bg * (255 - a) + fg * a) \div 256

\* White over white at alpha 254: the largest sum, 65025.
C37_Witness ==
    /\ img_call.name = "blend_alpha"
    /\ img_call.bg = Px(255, 255, 255, 255)
    /\ img_call.fg = Px(255, 255, 255, 254)
    /\ BlendSum(255, 255, 254) = 65025
    /\ img_call.out = Px(254, 254, 254, 255)

====
